---- MODULE Spec2Model ----
(***************************************************************************)
(* Model of the Passport Analysis endpoint, api/passport/api.py:           *)
(* handle_get_analysis(address, model_list) validates the address and the  *)
(* model names, POSTs the checksum address to one model endpoint and maps  *)
(* the reply to a PassportAnalysisResponse or to a typed API error.        *)
(*                                                                         *)
(* Strings are sequences of tokens.  An address is an optional "0x" token  *)
(* followed by body characters; a model_list is a sequence over ",", " "   *)
(* and whole words.  A model name is the token sequence left by split and  *)
(* strip, so the name "ethereum" is <<"ethereum">>.                        *)
(***************************************************************************)
EXTENDS Integers, Sequences, FiniteSets, TLC

\* Number of hex digits of an address body (40 in eth_utils; bounded here).
HexLen == 2
\* Longest model_list, in tokens.
MaxListLen == 3
\* Largest human_probability an upstream returns.
MaxScore == 2

VARIABLES MODEL_ENDPOINTS, pc, address, model_list, checksum_address, model,
          outbound, reply, response, ref

vars == <<MODEL_ENDPOINTS, pc, address, model_list, checksum_address, model,
          outbound, reply, response, ref>>

----------------------------------------------------------------------------
(* Strings *)

Str(w) == <<w>>

RECURSIVE SeqsUpTo(_, _)
SeqsUpTo(S, n) ==
    IF n = 0 THEN {<<>>}
    ELSE LET shorter == SeqsUpTo(S, n - 1)
         IN  shorter \cup {Append(s, c) : s \in {t \in shorter : Len(t) = n - 1}, c \in S}

----------------------------------------------------------------------------
(* Addresses: eth_utils and registry.api.utils *)

Prefix == "0x"
\* the hex digits that occur in the modelled addresses, and one that is none
HexChars == {"a", "A", "1"}
NonHexChar == "g"

\* str.lower() and str.upper() on one character
LowerChar(c) == IF c = "A" THEN "a" ELSE c
UpperChar(c) == IF c = "a" THEN "A" ELSE c

Lower(s) == [i \in 1..Len(s) |-> LowerChar(s[i])]

has_0x_prefix(s) == Len(s) >= 1 /\ s[1] = Prefix
remove_0x_prefix(s) == IF has_0x_prefix(s) THEN Tail(s) ELSE s

is_hex_address(s) ==
    LET body == remove_0x_prefix(s)
    IN  /\ Len(body) = HexLen
        /\ \A i \in 1..Len(body) : body[i] \in HexChars

DigitVal(c) == IF c = "a" THEN 10 ELSE 1

RECURSIVE WeightedSum(_, _)
WeightedSum(body, n) ==
    IF n = 0 THEN 0 ELSE WeightedSum(body, n - 1) + n * DigitVal(body[n])

\* The i-th nibble of the hash of the lowercase body.  eth_utils takes it
\* from keccak-256; here a small deterministic digest stands for it.
AddressHashNibble(body, i) == (WeightedSum(body, Len(body)) + 7 * i) % 16

to_checksum_address(s) ==
    LET body == Lower(remove_0x_prefix(s))
    IN  <<Prefix>> \o [i \in 1..Len(body) |->
                          IF AddressHashNibble(body, i) > 7
                          THEN UpperChar(body[i]) ELSE body[i]]

is_checksum_address(s) == is_hex_address(s) /\ s = to_checksum_address(s)

is_valid_address(s) ==
    IF s # Lower(s) THEN is_checksum_address(s) ELSE is_hex_address(s)

----------------------------------------------------------------------------
(* model_list parsing: line 92 *)

Comma == ","
Space == " "

RECURSIVE Split(_)
\* str.split(","): the elements between commas, empty ones included
Split(s) ==
    IF \A i \in 1..Len(s) : s[i] # Comma THEN <<s>>
    ELSE LET k == CHOOSE i \in 1..Len(s) :
                      s[i] = Comma /\ \A j \in 1..(i - 1) : s[j] # Comma
         IN  <<SubSeq(s, 1, k - 1)>> \o Split(SubSeq(s, k + 1, Len(s)))

RECURSIVE LStrip(_)
LStrip(s) == IF s # <<>> /\ Head(s) = Space THEN LStrip(Tail(s)) ELSE s

RECURSIVE RStrip(_)
RStrip(s) ==
    IF s # <<>> /\ s[Len(s)] = Space THEN RStrip(SubSeq(s, 1, Len(s) - 1)) ELSE s

\* Variant: only the leading whitespace is removed.
StripLeading(s) == LStrip(s)

Strip(s) == RStrip(LStrip(s))

ParseModels(ml) == LET parts == Split(ml) IN [i \in 1..Len(parts) |-> Strip(parts[i])]

Range(s) == {s[i] : i \in 1..Len(s)}

----------------------------------------------------------------------------
(* JSON values of an upstream body *)

JNull == [t |-> "null"]
JList == [t |-> "list"]
JNum(n) == [t |-> "num", v |-> n]
JObj(f) == [t |-> "obj", f |-> f]
EmptyObj == JObj(<<>>)
\* a body that response.json() cannot parse
NotJson == [t |-> "text"]

\* dict.get(key, default); only a dict has the method
HasGet(v) == v.t = "obj"
Get(v, key, default) == IF key \in DOMAIN v.f THEN v.f[key] ELSE default

----------------------------------------------------------------------------
(* Schemas and API errors: lines 26-64 *)

ModelNames == {Str("ethereum"), Str("nft"), Str("zksync")}

\* an Optional field left unset
Null == [null |-> TRUE]

\* PassportAnalysisDetailsModels(): every field None
PassportAnalysisDetailsModels == [m \in ModelNames |-> Null]

NoResponse ==
    [status |-> 0, error |-> "", detail |-> "", names |-> {}, known |-> {},
     address |-> <<>>, models |-> PassportAnalysisDetailsModels]

APIException(status, error, detail, names, known) ==
    [NoResponse EXCEPT !.status = status, !.error = error, !.detail = detail,
                       !.names = names, !.known = known]

InvalidAddressException ==
    APIException(400, "InvalidAddressException", "Invalid address.", {}, {})

\* detail: the message, the offending names and the known names it joins
BadModelNameError(detail, names, known) ==
    APIException(400, "BadModelNameError", detail, names, known)

PassportAnalysisError ==
    APIException(500, "PassportAnalysisError", "Error retrieving Passport analysis", {}, {})

PassportAnalysisResponse(addr, models) ==
    [NoResponse EXCEPT !.status = 200, !.address = addr, !.models = models]

----------------------------------------------------------------------------
(* handle_get_analysis: lines 91-147 *)

\* Variant: the address is never checked.
ValidationErrorNoAddress(addr, models, endpoints) ==
    IF Len(models) > 1
    THEN BadModelNameError("Currently, only one model name can be provided at a time", {}, {})
    ELSE IF Len(models) = 0 \/ models[1] = <<>>
    THEN BadModelNameError("No model names provided", {}, {})
    ELSE LET bad_models == Range(models) \ DOMAIN endpoints
         IN  IF bad_models # {}
             THEN BadModelNameError("Invalid model name(s)", bad_models, DOMAIN endpoints)
             ELSE NoResponse

\* Variant: the model names are checked before the address.
ValidationErrorModelsFirst(addr, models, endpoints) ==
    LET e == ValidationErrorNoAddress(addr, models, endpoints)
    IN  IF e # NoResponse THEN e
        ELSE IF ~is_valid_address(addr) THEN InvalidAddressException
        ELSE NoResponse

\* lines 94-109: the exception the validation raises, NoResponse when none
ValidationError(addr, models, endpoints) ==
    IF ~is_valid_address(addr) THEN InvalidAddressException
    ELSE IF Len(models) > 1
    THEN BadModelNameError("Currently, only one model name can be provided at a time", {}, {})
    ELSE IF Len(models) = 0 \/ models[1] = <<>>
    THEN BadModelNameError("No model names provided", {}, {})
    ELSE LET bad_models == Range(models) \ DOMAIN endpoints
         IN  IF bad_models # {}
             THEN BadModelNameError("Invalid model name(s)", bad_models, DOMAIN endpoints)
             ELSE NoResponse

\* Variant: every model is sent to the first endpoint.
PostRequestFirstEndpoint(endpoints, m, checksum) ==
    [url |-> endpoints[Str("ethereum")], json |-> [address |-> checksum]]

\* lines 118-122: the POST
PostRequest(endpoints, m, checksum) ==
    [url |-> endpoints[m], json |-> [address |-> checksum]]

\* requests.post raising (no response), or an HTTP response
NoReply == [kind |-> "none", status |-> 0, body |-> NotJson]
ConnectionFailure == [kind |-> "raise", status |-> 0, body |-> NotJson]
HttpReply(status, body) == [kind |-> "http", status |-> status, body |-> body]

\* response.raise_for_status(): HTTPError for a 4xx or 5xx status
raise_for_status(rep) == rep.status >= 400 /\ rep.status < 600

Returned(score) == [exc |-> "", score |-> score]
Raised(exc) == [exc |-> exc, score |-> 0]

\* Variant: a body without "data" is an error.
ScoreStrict(rep) ==
    IF rep.kind = "raise" THEN Raised("ConnectionError")
    ELSE IF raise_for_status(rep) THEN Raised("HTTPError")
    ELSE IF rep.body = NotJson THEN Raised("JSONDecodeError")
    ELSE IF ~HasGet(rep.body) THEN Raised("AttributeError")
    ELSE IF "data" \notin DOMAIN rep.body.f THEN Raised("KeyError")
    ELSE LET data == rep.body.f["data"]
         IN  IF ~HasGet(data) THEN Raised("AttributeError")
             ELSE Returned(Get(data, "human_probability", JNum(0)).v)

\* lines 118-130: the exception raised inside the try block, or the score
Score(rep) ==
    IF rep.kind = "raise" THEN Raised("ConnectionError")
    ELSE IF raise_for_status(rep) THEN Raised("HTTPError")
    ELSE IF rep.body = NotJson THEN Raised("JSONDecodeError")
    ELSE IF ~HasGet(rep.body) THEN Raised("AttributeError")
    ELSE LET data == Get(rep.body, "data", EmptyObj)
         IN  IF ~HasGet(data) THEN Raised("AttributeError")
             ELSE Returned(Get(data, "human_probability", JNum(0)).v)

\* Variant: the score is written to every field.
ModelResultsEveryField(scores) ==
    [m \in ModelNames |->
        [score |-> scores[CHOOSE k \in DOMAIN scores : TRUE]]]

\* lines 134-136: setattr(model_results, model_name, {"score": score})
ModelResults(scores) ==
    [m \in ModelNames |->
        IF m \in DOMAIN scores THEN [score |-> scores[m]]
        ELSE PassportAnalysisDetailsModels[m]]

\* Variant: the response echoes the checksum address.
SuccessResponseChecksum(addr, checksum, m, score) ==
    PassportAnalysisResponse(checksum, ModelResults(m :> score))

\* lines 138-143
SuccessResponse(addr, checksum, m, score) ==
    PassportAnalysisResponse(addr, ModelResults(m :> score))

\* Variant: the exception's name is the detail.
HandleExceptionLeak(exc) ==
    APIException(500, "PassportAnalysisError", exc, {}, {})

\* lines 145-147: every exception becomes PassportAnalysisError()
HandleException(exc) == PassportAnalysisError

\* lines 113-147: what the try/except leaves the request with
TryResult(addr, checksum, m, rep) ==
    LET r == Score(rep)
    IN  IF r.exc # "" THEN HandleException(r.exc)
        ELSE SuccessResponse(addr, checksum, m, r.score)

----------------------------------------------------------------------------
(* Inputs *)

AddressBodies ==
    {b \in SeqsUpTo(HexChars, HexLen) : Len(b) = HexLen}
      \cup {[i \in 1..(HexLen - 1) |-> "a"],
            [i \in 1..(HexLen + 1) |-> "a"],
            [i \in 1..HexLen |-> IF i = 1 THEN NonHexChar ELSE "a"]}

Addresses == {p \o b : p \in {<<>>, <<Prefix>>}, b \in AddressBodies}

ListTokens == {Comma, Space, "ethereum", "nft", "zksync", "bogus"}

ModelLists == SeqsUpTo(ListTokens, MaxListLen)

WellFormed(n) == JObj("data" :> JObj("human_probability" :> JNum(n)))

UpstreamBodies ==
    {NotJson, JNull, JList, EmptyObj,
     JObj("data" :> JNull), JObj("data" :> JList), JObj("data" :> EmptyObj)}
      \cup {WellFormed(n) : n \in 0..MaxScore}

Replies ==
    {ConnectionFailure}
      \cup {HttpReply(200, b) : b \in UpstreamBodies}
      \cup {HttpReply(st, b) : st \in {404, 503}, b \in {NotJson, WellFormed(1)}}

----------------------------------------------------------------------------
(* State machine: one request at a time through the handler *)

\* lines 84-88
Endpoints ==
    (Str("ethereum") :> "ETHEREUM_MODEL_ENDPOINT")
      @@ (Str("nft") :> "NFT_MODEL_ENDPOINT")
      @@ (Str("zksync") :> "ZKSYNC_MODEL_ENDPOINT")

\* History: one earlier request and what it was answered with.  It is taken
\* from RepeatProbes, a sample of requests of every outcome.
NoRef ==
    [set |-> FALSE, address |-> <<>>, model_list |-> <<>>, reply |-> NoReply,
     response |-> NoResponse]

ProbeAddresses ==
    {<<Prefix>> \o [i \in 1..HexLen |-> "a"], [i \in 1..(HexLen - 1) |-> "a"]}

ProbeLists == {Str("ethereum"), Str("bogus")}

ProbeReplies == {NoReply, ConnectionFailure, HttpReply(200, WellFormed(1))}

RepeatProbe(a, ml, rep) ==
    a \in ProbeAddresses /\ ml \in ProbeLists /\ rep \in ProbeReplies

Init ==
    /\ MODEL_ENDPOINTS = Endpoints
    /\ pc = "idle"
    /\ address = <<>>
    /\ model_list = <<>>
    /\ checksum_address = <<>>
    /\ model = <<>>
    /\ outbound = <<>>
    /\ reply = NoReply
    /\ response = NoResponse
    /\ ref = NoRef

\* lines 79-111: the handler is entered and validates its arguments
Call ==
    /\ pc = "idle"
    /\ \E a \in Addresses, ml \in ModelLists :
         LET models == ParseModels(ml)
             err == ValidationError(a, models, MODEL_ENDPOINTS)
         IN  /\ address' = a
             /\ model_list' = ml
             /\ outbound' = <<>>
             /\ reply' = NoReply
             /\ IF err # NoResponse
                THEN /\ response' = err
                     /\ checksum_address' = <<>>
                     /\ model' = <<>>
                     /\ pc' = "done"
                ELSE /\ response' = NoResponse
                     /\ checksum_address' = to_checksum_address(a)
                     /\ model' = models[1]
                     /\ pc' = "dispatch"
    /\ UNCHANGED <<MODEL_ENDPOINTS, ref>>

\* lines 118-122: requests.post returns a response or raises
Post ==
    /\ pc = "dispatch"
    /\ \E rep \in Replies :
         /\ outbound' = Append(outbound, PostRequest(MODEL_ENDPOINTS, model, checksum_address))
         /\ reply' = rep
    /\ pc' = "replied"
    /\ UNCHANGED <<MODEL_ENDPOINTS, address, model_list, checksum_address, model, response, ref>>

\* Variant: a failed call is tried again.
ReturnRetry ==
    /\ pc = "replied"
    /\ LET r == TryResult(address, checksum_address, model, reply)
       IN  IF r.status = 500
           THEN pc' = "dispatch" /\ response' = response
           ELSE pc' = "done" /\ response' = r
    /\ UNCHANGED <<MODEL_ENDPOINTS, address, model_list, checksum_address, model, outbound, reply, ref>>

\* Variant: a model whose call failed is dropped from the endpoint map.
ReturnEvict ==
    /\ pc = "replied"
    /\ response' = TryResult(address, checksum_address, model, reply)
    /\ MODEL_ENDPOINTS' =
         IF response'.status = 500
         THEN [m \in DOMAIN MODEL_ENDPOINTS \ {model} |-> MODEL_ENDPOINTS[m]]
         ELSE MODEL_ENDPOINTS
    /\ pc' = "done"
    /\ UNCHANGED <<address, model_list, checksum_address, model, outbound, reply, ref>>

\* lines 124-147: the reply is turned into the response or the 500 error
Return ==
    /\ pc = "replied"
    /\ response' = TryResult(address, checksum_address, model, reply)
    /\ pc' = "done"
    /\ UNCHANGED <<MODEL_ENDPOINTS, address, model_list, checksum_address, model, outbound, reply, ref>>

\* The response or the exception leaves the handler; nothing of the request
\* is kept (lines 91-147 bind locals only).
Respond ==
    /\ pc = "done"
    /\ pc' = "idle"
    /\ address' = <<>>
    /\ model_list' = <<>>
    /\ checksum_address' = <<>>
    /\ model' = <<>>
    /\ outbound' = <<>>
    /\ reply' = NoReply
    /\ response' = NoResponse
    /\ \E keep \in BOOLEAN :
         ref' = IF keep /\ ~ref.set /\ RepeatProbe(address, model_list, reply)
                THEN [set |-> TRUE, address |-> address, model_list |-> model_list,
                      reply |-> reply, response |-> response]
                ELSE ref
    /\ UNCHANGED MODEL_ENDPOINTS

Next == Call \/ Post \/ Return \/ Respond

Spec == Init /\ [][Next]_vars

----------------------------------------------------------------------------
(* Properties *)

\* The request's arguments read without the parser: commas, blanks and the
\* text between the first and the last token that is not a blank.
HasComma(ml) == \E i \in 1..Len(ml) : ml[i] = Comma
AllBlank(ml) == \A i \in 1..Len(ml) : ml[i] = Space
Core(ml) ==
    LET solid == {i \in 1..Len(ml) : ml[i] # Space}
        first == CHOOSE i \in solid : \A j \in solid : i <= j
        last  == CHOOSE i \in solid : \A j \in solid : j <= i
    IN  IF solid = {} THEN <<>> ELSE SubSeq(ml, first, last)
KnownNames == {Str("ethereum"), Str("nft"), Str("zksync")}
SingleKnown(ml) == ~HasComma(ml) /\ Core(ml) \in KnownNames

InHandler == pc # "idle"
OnlyOneDetail == "Currently, only one model name can be provided at a time"

\* human_probability of a body, 0 when a key of the path is missing
PathPresent(b) ==
    /\ b.t = "obj"
    /\ "data" \in DOMAIN b.f
    /\ b.f["data"].t = "obj"
    /\ "human_probability" \in DOMAIN b.f["data"].f
Sent(b) == IF PathPresent(b) THEN b.f["data"].f["human_probability"].v ELSE 0
\* the keys on the path that exist hold objects, and one of them is missing
KeyMissing(b) ==
    /\ b.t = "obj"
    /\ \/ "data" \notin DOMAIN b.f
       \/ /\ b.f["data"].t = "obj"
          /\ "human_probability" \notin DOMAIN b.f["data"].f
Success200 == reply.kind = "http" /\ reply.status = 200 /\ reply.body # NotJson

\* C1: a request whose address fails validation ends with the 400
\* InvalidAddressException whatever its model_list is, and no POST is issued.
C1_InvalidAddressShortCircuits ==
    (InHandler /\ ~is_valid_address(address)) =>
        /\ pc = "done"
        /\ response = InvalidAddressException
        /\ response.status = 400
        /\ outbound = <<>>

C1_Witness ==
    /\ pc = "done"
    /\ ~is_valid_address(address)
    /\ model_list = <<"ethereum", Comma, "nft">>
    /\ response.error = "InvalidAddressException"

\* C2 as claimed: the checksum form of the address is what is POSTed and
\* also what the 200 response echoes.
C2_EchoesChecksumAddress ==
    (pc = "done" /\ response.status = 200) =>
        /\ outbound[1].json.address = to_checksum_address(address)
        /\ response.address = to_checksum_address(address)

\* C2 amended: the checksum form of the address is what is POSTed; the 200
\* response echoes the address as the caller typed it.
C2_PostsChecksumEchoesInput ==
    (pc = "done" /\ response.status = 200) =>
        /\ Len(outbound) = 1
        /\ outbound[1].json.address = to_checksum_address(address)
        /\ outbound[1].json.address[1] = Prefix
        /\ response.address = address

C2_Witness ==
    /\ pc = "done"
    /\ response.status = 200
    /\ address = Lower(address)
    /\ address # to_checksum_address(address)
    /\ outbound[1].json.address # address

\* C3 as claimed: a success status with a JSON body in which the path
\* data.human_probability is absent at any level gives 200 with score 0.
C3_AbsentPathScoresZero ==
    (pc = "done" /\ Success200 /\ ~PathPresent(reply.body)) =>
        /\ response.status = 200
        /\ response.models[model] = [score |-> 0]

\* C3 amended: a missing key ("data" absent from the body object, or
\* "human_probability" absent from the data object) gives 200 with score 0;
\* a body that is not an object, or a "data" that is present and not an
\* object, gives the 500 PassportAnalysisError.
C3_MissingKeyScoresZero ==
    (pc = "done" /\ Success200 /\ ~PathPresent(reply.body)) =>
        IF KeyMissing(reply.body)
        THEN response.status = 200 /\ response.models[model] = [score |-> 0]
        ELSE response = PassportAnalysisError

C3_Witness ==
    /\ pc = "done"
    /\ Success200
    /\ reply.body = EmptyObj
    /\ response.status = 200
    /\ response.models[model] = [score |-> 0]

\* C4: every failure of the dispatch stage (raised by the POST, an error
\* status, a body that is not JSON) ends the request with the 500
\* PassportAnalysisError and its fixed detail, the same for every cause.
C4_DispatchFailureIsGeneric500 ==
    (pc = "done" /\ outbound # <<>>
       /\ (reply.kind = "raise" \/ reply.status # 200 \/ reply.body = NotJson)) =>
        /\ response.status = 500
        /\ response.error = "PassportAnalysisError"
        /\ response.detail = "Error retrieving Passport analysis"
        /\ response = [NoResponse EXCEPT !.status = 500,
                                         !.error = "PassportAnalysisError",
                                         !.detail = "Error retrieving Passport analysis"]

C4_Witness ==
    /\ pc = "done"
    /\ reply.kind = "http"
    /\ reply.status = 503
    /\ reply.body = WellFormed(1)
    /\ response.status = 500

\* C5: for a valid address the parsed model_list decides: blank gives "No
\* model names provided", a comma gives the only-one-model error, a single
\* unknown name gives the invalid-name error naming it and the known names,
\* and only a single known name goes on to the dispatch.
C5_ModelListOutcome ==
    (InHandler /\ is_valid_address(address)) =>
        IF HasComma(model_list)
        THEN pc = "done" /\ response = BadModelNameError(OnlyOneDetail, {}, {})
        ELSE IF AllBlank(model_list)
        THEN pc = "done" /\ response = BadModelNameError("No model names provided", {}, {})
        ELSE IF Core(model_list) \notin KnownNames
        THEN /\ pc = "done"
             /\ response = BadModelNameError("Invalid model name(s)",
                                             {Core(model_list)}, KnownNames)
             /\ response.status = 400
        ELSE /\ response.status # 400
             /\ model = Core(model_list)
             /\ pc = "done" => Len(outbound) = 1

C5_Witness ==
    /\ pc = "done"
    /\ is_valid_address(address)
    /\ model_list = <<Space, "bogus">>
    /\ response.names = {Str("bogus")}

\* C6 as claimed: the model-count and emptiness checks come before the
\* address check, so a request failing both exits with BadModelName.
C6_ModelNamesCheckedFirst ==
    (pc = "done" /\ ~is_valid_address(address)
       /\ (HasComma(model_list) \/ AllBlank(model_list))) =>
        response.error = "BadModelNameError"

\* C6 amended: the address check comes first: a request failing both exits
\* with InvalidAddress, and BadModelName is raised only for a valid address.
C6_AddressCheckedFirst ==
    pc = "done" =>
        /\ (~is_valid_address(address)
              /\ (HasComma(model_list) \/ AllBlank(model_list)))
             => response.error = "InvalidAddressException"
        /\ response.error = "BadModelNameError" => is_valid_address(address)

C6_Witness ==
    /\ pc = "done"
    /\ ~is_valid_address(address)
    /\ AllBlank(model_list)
    /\ response.error = "InvalidAddressException"

\* C7: a POST is issued only for a valid address and a model_list that is
\* one known name, it goes to that name's endpoint, and a request that ends
\* with a 400 has issued none.
C7_PostOnlyAfterValidation ==
    /\ outbound # <<>> =>
         /\ is_valid_address(address)
         /\ SingleKnown(model_list)
         /\ \A i \in 1..Len(outbound) : outbound[i].url = Endpoints[Core(model_list)]
    /\ response.status = 400 => outbound = <<>>

C7_Witness ==
    /\ pc = "replied"
    /\ Core(model_list) = Str("nft")
    /\ outbound = <<[url |-> "NFT_MODEL_ENDPOINT", json |-> [address |-> checksum_address]]>>

\* C8: a request issues at most one POST: once the reply is in, the next
\* step ends the request without another call, whether the call failed or not.
C8_AtMostOnePost ==
    [][/\ Len(outbound') <= 1
       /\ pc = "replied" => (pc' = "done" /\ outbound' = outbound)
       /\ pc = "done" => pc' = "idle"]_vars

C8_Witness ==
    /\ pc = "done"
    /\ Len(outbound) = 1
    /\ reply = ConnectionFailure
    /\ response.status = 500

\* C9: a 200 response holds the requested model's score, equal to the
\* human_probability the upstream sent, and null for the two other models;
\* a failed call gives no 200 and fills no field.
C9_OnlyRequestedModelFilled ==
    pc = "done" =>
        /\ response.status = 200 =>
             /\ Success200
             /\ response.models[Core(model_list)] = [score |-> Sent(reply.body)]
             /\ \A m \in KnownNames \ {Core(model_list)} : response.models[m] = Null
             /\ DOMAIN response.models = KnownNames
        /\ response.status # 200 => \A m \in KnownNames : response.models[m] = Null
        /\ (outbound # <<>> /\ ~Success200) => response.status = 500

C9_Witness ==
    /\ pc = "done"
    /\ response.status = 200
    /\ model_list = Str("zksync")
    /\ reply.body = WellFormed(MaxScore)
    /\ response.models[Str("zksync")] = [score |-> MaxScore]
    /\ response.models[Str("ethereum")] = Null

\* C10: a request repeated after any other requests, with the same address,
\* model_list and upstream reply, gets the response the earlier one got, and
\* MODEL_ENDPOINTS is the mapping of process start.
C10_RepeatGivesSameOutcome ==
    /\ MODEL_ENDPOINTS = Endpoints
    /\ (pc = "done" /\ ref.set /\ ref.address = address
          /\ ref.model_list = model_list /\ ref.reply = reply)
         => response = ref.response

C10_Witness ==
    /\ pc = "done"
    /\ ref.set
    /\ ref.address = address
    /\ ref.model_list = model_list
    /\ ref.reply = reply
    /\ reply = ConnectionFailure
    /\ response = ref.response

====
